---- MODULE Spec2Model ----
(***************************************************************************)
(* Model of pypose/lietensor/convert.py: the conversions of batched        *)
(* rotation / transformation matrices to SO3, SE3, Sim3 and RxSO3          *)
(* LieTensors; and of pypose/module/cost.py: the cost object Cost and its  *)
(* quadratic variant QuadCost (specification SpecCost, further below).     *)
(*                                                                         *)
(* Numbers.  A tensor entry is an exact rational: a matrix is a record     *)
(* [n, d, nan] whose value is n[i][j] / d (d > 0), or not-a-number in      *)
(* every entry when nan is set.  The sums of mat2SO3 are rounded to        *)
(* float32 (Float32); the numerators of Spec are below 2^24, where this    *)
(* rounding changes nothing.  A quaternion is kept in the form the code    *)
(* computes it in: the masked sum of the four candidates (raw / d) divided *)
(* by 2*sqrt(t / d), t the masked sum of the four trace terms.             *)
(*                                                                         *)
(* Tensors.  A batched tensor is [shape, main, rest]: its full shape, the  *)
(* batch entry at flat index 0 and the value of every other batch entry    *)
(* (of an unbatched tensor, rest = main; a batch of one entry is modelled  *)
(* with the padding value rest as a second, equally tested entry).         *)
(* The reductions of the code (allclose, any) are symmetric in the batch   *)
(* entries, so the position of the distinguished entry is immaterial.      *)
(***************************************************************************)
EXTENDS Integers, Sequences, FiniteSets, TLC

VARIABLES mat, called, check, ltype, out, self, heap, evaluated, assigns, ret

\* the variables of the converters
converter == <<mat, called, check, ltype, out>>

\* the variables of the cost object and of its caller
costobject == <<self, heap, evaluated, assigns, ret>>

vars == <<mat, called, check, ltype, out, self, heap, evaluated, assigns, ret>>

(***************************************************************************)
(* Bounds of the model.                                                    *)
(***************************************************************************)
MaxBatchRank == 2
MaxBatchDim == 3

(***************************************************************************)
(* Constants of the program (float32 tensors).                             *)
(***************************************************************************)
\* torch.finfo(torch.float32).resolution = 1e-6 = 1 / ResolutionDen
ResolutionDen == 1000000
\* default rtol of torch.allclose / torch.isclose = 1e-5 = 1 / RtolDen
RtolDen == 100000

(***************************************************************************)
(* Arithmetic helpers.                                                     *)
(***************************************************************************)
Abs(x) == IF x < 0 THEN -x ELSE x

RECURSIVE GCD(_, _)
GCD(a, b) == IF b = 0 THEN Abs(a) ELSE GCD(Abs(b), Abs(a) % Abs(b))

RECURSIVE Pow2(_)
Pow2(k) == IF k = 0 THEN 1 ELSE 2 * Pow2(k - 1)

\* the bits of the significand of torch.float32, the default dtype of a tensor
Mantissa == 24

\* the spacing of the float32 numbers at the integer x, for |x| < 2^30
Ulp(x) ==
    CHOOSE p \in {Pow2(k) : k \in 0..6} :
        /\ Abs(x) < Pow2(Mantissa) * p
        /\ p = 1 \/ Abs(x) >= Pow2(Mantissa) * (p \div 2)

\* the float32 nearest to the integer x, ties to the even significand: the result of
\* an addition or subtraction of float32 tensors whose exact value is x.  Integers
\* below 2^24 are float32 numbers; the numerators over a common denominator that the
\* model keeps are all below 2^24 and are kept exact.
Float32(x) ==
    IF Abs(x) < Pow2(Mantissa) THEN x
    ELSE LET p == Ulp(x)
             q == Abs(x) \div p
             r == Abs(x) % p
             m == (IF 2 * r > p \/ (2 * r = p /\ q % 2 = 1) THEN q + 1 ELSE q) * p
         IN  IF x < 0 THEN -m ELSE m

RECURSIVE Prod(_)
Prod(s) == IF s = <<>> THEN 1 ELSE Head(s) * Prod(Tail(s))

\* a[..., :r, :c]
Slice(n, r, c) == [i \in 1..r |-> [j \in 1..c |-> n[i][j]]]

\* the input used as it is, not transposed
Transpose3_Identity(n) == [i \in 1..3 |-> [j \in 1..3 |-> n[i][j]]]

\* mat.mT
Transpose3(n) == [i \in 1..3 |-> [j \in 1..3 |-> n[j][i]]]

\* a @ b for 3x3 numerators
MatMul3(a, b) ==
    [i \in 1..3 |-> [j \in 1..3 |-> a[i][1]*b[1][j] + a[i][2]*b[2][j] + a[i][3]*b[3][j]]]

Det3(n) ==
      n[1][1] * (n[2][2]*n[3][3] - n[2][3]*n[3][2])
    - n[1][2] * (n[2][1]*n[3][3] - n[2][3]*n[3][1])
    + n[1][3] * (n[2][1]*n[3][2] - n[2][2]*n[3][1])

\* the 3x3 minor of a 4x4 numerator obtained by deleting row 4 and column k
Minor4(n, k) ==
    LET cols == IF k = 1 THEN <<2, 3, 4>> ELSE IF k = 2 THEN <<1, 3, 4>>
                ELSE IF k = 3 THEN <<1, 2, 4>> ELSE <<1, 2, 3>>
    IN  [i \in 1..3 |-> [j \in 1..3 |-> n[i][cols[j]]]]

\* cofactor expansion along the fourth row
Det4(n) ==
    - n[4][1] * Det3(Minor4(n, 1)) + n[4][2] * Det3(Minor4(n, 2))
    - n[4][3] * Det3(Minor4(n, 3)) + n[4][4] * Det3(Minor4(n, 4))

(***************************************************************************)
(* Shapes.                                                                 *)
(***************************************************************************)
Rank(shape) == Len(shape)

\* shape[:-2]
BatchOf(shape) == SubSeq(shape, 1, Len(shape) - 2)

\* shape[-2:]
Trailing(shape) == SubSeq(shape, Len(shape) - 1, Len(shape))

\* the permitted shapes with (4,3) accepted as well
PermittedTrailing_Transposed == {<<3, 3>>, <<3, 4>>, <<4, 3>>, <<4, 4>>}

PermittedTrailing == {<<3, 3>>, <<3, 4>>, <<4, 4>>}

\* torch broadcasting of two shapes, aligned at the last dimension
Broadcastable(a, b) ==
    \A k \in 0..(IF Len(a) < Len(b) THEN Len(a) ELSE Len(b)) - 1 :
        LET x == a[Len(a) - k]
            y == b[Len(b) - k]
        IN  x = y \/ x = 1 \/ y = 1

RECURSIVE SumLast(_)
SumLast(parts) ==
    IF parts = <<>> THEN 0 ELSE Head(parts)[Len(Head(parts))] + SumLast(Tail(parts))

\* shape of torch.cat(parts, dim=-1), or <<"error">> when the leading dimensions differ
CatShape(parts) ==
    LET lead(s) == SubSeq(s, 1, Len(s) - 1)
    IN  IF \A i \in 1..Len(parts) : lead(parts[i]) = lead(parts[1])
        THEN lead(parts[1]) \o <<SumLast(parts)>>
        ELSE <<"error">>

(***************************************************************************)
(* Results.                                                                *)
(***************************************************************************)
Raise(kind, msg) == [kind |-> kind, msg |-> msg]

IsError(r) == r.kind # "ok"

(***************************************************************************)
(* mat2SO3                                                                 *)
(***************************************************************************)
\* x / d < resolution
LtResolution(x, d) == x * ResolutionDen < d

\* |a/ad - b| <= atol + rtol * |b| with atol = resolution, b an integer
Close(a, ad, b) ==
    Abs(a - b * ad) * ResolutionDen <= ad * (1 + (ResolutionDen \div RtolDen) * Abs(b))

Eye3 == <<<<1, 0, 0>>, <<0, 1, 0>>, <<0, 0, 1>>>>

\* torch.allclose(mat @ mat.mT, eye) for one batch entry
Orthogonal(m) ==
    /\ ~m.nan
    /\ LET e0 == MatMul3(m.n, Transpose3(m.n))
       IN  \A i \in 1..3 : \A j \in 1..3 : Close(e0[i][j], m.d * m.d, Eye3[i][j])

\* the determinant compared in absolute value
UnitDet_Abs(m) ==
    /\ ~m.nan
    /\ Close(Abs(Det3(m.n)), m.d * m.d * m.d, 1)

\* torch.allclose(torch.det(mat), ones) for one batch entry
UnitDet(m) ==
    /\ ~m.nan
    /\ Close(Det3(m.n), m.d * m.d * m.d, 1)

B2N(b) == IF b THEN 1 ELSE 0

mask_d2(m) == ~m.nan /\ LtResolution(Transpose3(m.n)[3][3], m.d)

\* the comparison of R00 and R11 reversed
mask_d0_d1_Reversed(m) == ~m.nan /\ Transpose3(m.n)[1][1] < Transpose3(m.n)[2][2]

mask_d0_d1(m) == ~m.nan /\ Transpose3(m.n)[1][1] > Transpose3(m.n)[2][2]

mask_d0_nd1(m) == ~m.nan /\ Transpose3(m.n)[1][1] < -Transpose3(m.n)[2][2]

mask_c0(m) == B2N(mask_d2(m) /\ mask_d0_d1(m))

mask_c1(m) == B2N(mask_d2(m) /\ ~mask_d0_d1(m))

mask_c2(m) == B2N(~mask_d2(m) /\ mask_d0_nd1(m))

\* the fourth mask without its R22 term
mask_c3_NoD2(m) == B2N(~mask_d0_nd1(m))

mask_c3(m) == B2N(~mask_d2(m) /\ ~mask_d0_nd1(m))

\* the four trace terms, as numerators over m.d, each sum evaluated from left to right
\* in float32
TraceTerms(m) ==
    LET r == Transpose3(m.n)
    IN  << Float32(Float32(Float32(m.d + r[1][1]) - r[2][2]) - r[3][3]),
           Float32(Float32(Float32(m.d - r[1][1]) + r[2][2]) - r[3][3]),
           Float32(Float32(Float32(m.d - r[1][1]) - r[2][2]) + r[3][3]),
           Float32(Float32(Float32(m.d + r[1][1]) + r[2][2]) + r[3][3]) >>

\* the four candidate quaternions (w, x, y, z), as numerators over m.d
Candidates(m) ==
    LET r == Transpose3(m.n)
        t == TraceTerms(m)
        f(x) == Float32(x)
    IN  << <<f(r[2][3] - r[3][2]), t[1], f(r[1][2] + r[2][1]), f(r[3][1] + r[1][3])>>,
           <<f(r[3][1] - r[1][3]), f(r[1][2] + r[2][1]), t[2], f(r[2][3] + r[3][2])>>,
           <<f(r[1][2] - r[2][1]), f(r[3][1] + r[1][3]), f(r[2][3] + r[3][2]), t[3]>>,
           <<t[4], f(r[2][3] - r[3][2]), f(r[3][1] - r[1][3]), f(r[1][2] - r[2][1])>> >>

\* q.index_select(-1, [1, 2, 3, 0]): wxyz -> xyzw
IndexSelect(q) == <<q[2], q[3], q[4], q[1]>>

\* q = q0*mask_c0 + ... + q3*mask_c3 over 2*sqrt(t0*mask_c0 + ... + t3*mask_c3), reordered
\* to xyzw: the value of the quaternion is (raw / d) / (2 * sqrt(t / d))
MaskedSum(c, t, k, m) ==
    [raw  |-> IndexSelect([i \in 1..4 |-> c[1][i]*k[1] + c[2][i]*k[2] + c[3][i]*k[3] + c[4][i]*k[4]]),
     t    |-> t[1]*k[1] + t[2]*k[2] + t[3]*k[3] + t[4]*k[4],
     d    |-> m.d,
     nan  |-> m.nan,
     mask |-> k]

\* the quaternion of one batch entry
Shepperd(m) ==
    MaskedSum(Candidates(m), TraceTerms(m), <<mask_c0(m), mask_c1(m), mask_c2(m), mask_c3(m)>>, m)

\* mat[..., :3, :3] of one batch entry
Block33(m) == [n |-> Slice(m.n, 3, 3), d |-> m.d, nan |-> m.nan]

\* the validity check of the blocks a, b of the batch entries, then their quaternions
Checked(m, chk, a, b) ==
    IF chk /\ ~(Orthogonal(a) /\ Orthogonal(b))
        THEN Raise("ValueError", "orthogonal")
    ELSE IF chk /\ ~(UnitDet(a) /\ UnitDet(b))
        THEN Raise("ValueError", "det")
    ELSE [kind  |-> "ok",
          ltype |-> "SO3",
          shape |-> BatchOf(BatchOf(m.shape) \o <<3, 3>>) \o <<4>>,
          main  |-> [q |-> Shepperd(a)],
          rest  |-> [q |-> Shepperd(b)]]

mat2SO3(m, chk) ==
    IF Rank(m.shape) < 2 THEN Raise("ValueError", "dims")
    ELSE IF Trailing(m.shape) \notin PermittedTrailing THEN Raise("ValueError", "shape")
    ELSE Checked(m, chk, Block33(m.main), Block33(m.rest))

(***************************************************************************)
(* mat2SE3                                                                 *)
(***************************************************************************)
\* the tensor mat[..., :3, :3]
Slice33(m) ==
    [shape |-> BatchOf(m.shape) \o <<3, 3>>, main |-> Block33(m.main), rest |-> Block33(m.rest)]

\* the translation read from the third column, the last one of the rotation block
Translation_ThirdColumn(shape, e) ==
    IF shape[Len(shape)] = 3
    THEN [v |-> <<0, 0, 0>>, d |-> 1]
    ELSE [v |-> <<e.n[1][3], e.n[2][3], e.n[3][3]>>, d |-> e.d]

\* the translation of one batch entry: zeros when the last dimension is 3,
\* mat[..., :3, 3] otherwise; value v / d
Translation(shape, e) ==
    IF shape[Len(shape)] = 3
    THEN [v |-> <<0, 0, 0>>, d |-> 1]
    ELSE [v |-> <<e.n[1][4], e.n[2][4], e.n[3][4]>>, d |-> e.d]

\* torch.cat([t, q], dim=-1), q the result of mat2SO3
CatSE3(m, q) ==
    IF IsError(q) THEN q
    ELSE [kind  |-> "ok",
          ltype |-> "SE3",
          shape |-> CatShape(<<BatchOf(m.shape) \o <<3>>, q.shape>>),
          main  |-> [t |-> Translation(m.shape, m.main), q |-> q.main.q],
          rest  |-> [t |-> Translation(m.shape, m.rest), q |-> q.rest.q]]

mat2SE3(m, chk) ==
    IF Rank(m.shape) < 2 THEN Raise("ValueError", "dims")
    ELSE IF Trailing(m.shape) \notin PermittedTrailing THEN Raise("ValueError", "shape")
    ELSE CatSE3(m, mat2SO3(Slice33(m), chk))

(***************************************************************************)
(* mat2Sim3 and mat2RxSO3                                                  *)
(***************************************************************************)
MaxRoot == 12

IsCube(x) == \E r \in 0..MaxRoot : r * r * r = x

CubeRoot(x) == CHOOSE r \in 0..MaxRoot : r * r * r = x

\* torch.det of one batch entry of a square tensor, as a rational
DetOf(e) ==
    IF Len(e.n) = 3
    THEN [n |-> Det3(e.n), d |-> e.d * e.d * e.d]
    ELSE [n |-> Det4(e.n), d |-> e.d * e.d * e.d * e.d]

\* torch.pow(x, 1/3): not-a-number for a negative base
Pow13(x) ==
    IF x.n < 0 THEN [n |-> 0, d |-> 1, nan |-> TRUE]
    ELSE LET g == GCD(x.n, x.d)
         IN  [n |-> CubeRoot(x.n \div g), d |-> CubeRoot(x.d \div g), nan |-> FALSE]

\* torch.isclose(s, 0, atol=resolution) for one batch entry
IsCloseZero(s) == ~s.nan /\ Abs(s.n) * ResolutionDen <= s.d

NanMatrix == [n |-> <<<<0, 0, 0>>, <<0, 0, 0>>, <<0, 0, 0>>>>, d |-> 1, nan |-> TRUE]

\* the rational matrix n / d in lowest terms
Normalize(n, d) ==
    LET g3(r) == GCD(GCD(r[1], r[2]), r[3])
        g == GCD(GCD(GCD(g3(n[1]), g3(n[2])), g3(n[3])), d)
    IN  [n |-> [i \in 1..3 |-> [j \in 1..3 |-> n[i][j] \div g]], d |-> d \div g, nan |-> FALSE]

\* rot / s for one batch entry
DivScale(rot, s) ==
    IF s.nan \/ rot.nan THEN NanMatrix
    ELSE Normalize([i \in 1..3 |-> [j \in 1..3 |-> rot.n[i][j] * s.d]], rot.d * s.n)

\* the tensor rot / s.unsqueeze(-1)
Normalized(m, sa, sb) ==
    [shape |-> BatchOf(m.shape) \o <<3, 3>>,
     main  |-> DivScale(Block33(m.main), sa),
     rest  |-> DivScale(Block33(m.rest), sb)]

\* the quaternion q of mat2SO3 with the scales sa, sb of the batch entries
WithScale(q, sa, sb, sshape) ==
    IF IsError(q) THEN q
    ELSE [kind |-> "ok", shape |-> q.shape, sshape |-> sshape,
          main |-> [q |-> q.main.q, s |-> sa],
          rest |-> [q |-> q.rest.q, s |-> sb]]

\* the zero test of the scales sa, sb of the batch entries, then the quaternion of rot / s
ScaleChecked(m, chk, sa, sb) ==
    IF ~Broadcastable(BatchOf(m.shape) \o <<1>>, BatchOf(m.shape))
        THEN Raise("RuntimeError", "broadcast")
    ELSE IF IsCloseZero(sa) \/ IsCloseZero(sb)
        THEN Raise("ValueError", "rank")
    ELSE WithScale(mat2SO3(Normalized(m, sa, sb), chk), sa, sb, BatchOf(m.shape) \o <<1>>)

\* the statements shared by mat2Sim3 and mat2RxSO3: validation, scale, quaternion
ScaledRotation(m, chk) ==
    IF Rank(m.shape) < 2 THEN Raise("ValueError", "dims")
    ELSE IF Trailing(m.shape) \notin PermittedTrailing THEN Raise("ValueError", "shape")
    ELSE IF m.shape[Len(m.shape)] # m.shape[Len(m.shape) - 1]
        THEN Raise("RuntimeError", "det of non-square matrix")
    ELSE ScaleChecked(m, chk, Pow13(DetOf(m.main)), Pow13(DetOf(m.rest)))

\* torch.cat([t, q, s], dim=-1)
CatSim3(m, r) ==
    IF IsError(r) THEN r
    ELSE [kind  |-> "ok",
          ltype |-> "Sim3",
          shape |-> CatShape(<<BatchOf(m.shape) \o <<3>>, r.shape, r.sshape>>),
          main  |-> [t |-> Translation(m.shape, m.main), q |-> r.main.q, s |-> r.main.s],
          rest  |-> [t |-> Translation(m.shape, m.rest), q |-> r.rest.q, s |-> r.rest.s]]

mat2Sim3(m, chk) == CatSim3(m, ScaledRotation(m, chk))

\* torch.cat([q, s], dim=-1)
CatRxSO3(r) ==
    IF IsError(r) THEN r
    ELSE [kind  |-> "ok",
          ltype |-> "RxSO3",
          shape |-> CatShape(<<r.shape, r.sshape>>),
          main  |-> [q |-> r.main.q, s |-> r.main.s],
          rest  |-> [q |-> r.rest.q, s |-> r.rest.s]]

mat2RxSO3(m, chk) == CatRxSO3(ScaledRotation(m, chk))

(***************************************************************************)
(* from_matrix                                                             *)
(***************************************************************************)
LTypes == {"SO3_type", "SE3_type", "Sim3_type", "RxSO3_type", "so3_type"}

from_matrix(m, lt, chk) ==
    IF Rank(m.shape) < 2 THEN Raise("ValueError", "dims")
    ELSE IF Trailing(m.shape) \notin PermittedTrailing THEN Raise("ValueError", "shape")
    ELSE IF lt = "SO3_type" THEN mat2SO3(m, chk)
    ELSE IF lt = "SE3_type" THEN mat2SE3(m, chk)
    ELSE IF lt = "Sim3_type" THEN mat2Sim3(m, chk)
    ELSE IF lt = "RxSO3_type" THEN mat2RxSO3(m, chk)
    ELSE Raise("ValueError", "ltype")

(***************************************************************************)
(* The inputs the functions are applied to.                                *)
(***************************************************************************)
Injective(p) == \A i \in 1..3 : \A j \in 1..3 : p[i] = p[j] => i = j

SignedPerm(p, sg) == [i \in 1..3 |-> [j \in 1..3 |-> IF p[i] = j THEN sg[i] ELSE 0]]

SignedPerms ==
    {SignedPerm(p, sg) : p \in {f \in [1..3 -> 1..3] : Injective(f)}, sg \in [1..3 -> {-1, 1}]}

\* the 24 axis-aligned rotation matrices
Rotations24 == {r \in SignedPerms : Det3(r) = 1}

Rz90 == <<<<0, -1, 0>>, <<1, 0, 0>>, <<0, 0, 1>>>>

Rational(n, d) == [n |-> n, d |-> d, nan |-> FALSE]

\* valid rotations: axis-aligned, and the rotation about z with cos = 3/5, sin = 4/5
ValidBlocks ==
    {Rational(r, 1) : r \in Rotations24}
        \cup {Rational(<<<<3, -4, 0>>, <<4, 3, 0>>, <<0, 0, 5>>>>, 5),
              Rational(<<<<5, 0, 0>>, <<0, 3, 4>>, <<0, -4, 3>>>>, 5)}

\* rotations scaled by 2 and by 1/2
ScaledBlocks ==
    {Rational(<<<<0, -2, 0>>, <<2, 0, 0>>, <<0, 0, 2>>>>, 1),
     Rational(<<<<2, 0, 0>>, <<0, -2, 0>>, <<0, 0, -2>>>>, 1),
     Rational(Rz90, 2)}

\* reflections, singular matrices and non-orthogonal matrices of determinant 1
InvalidBlocks ==
    {Rational(<<<<1, 0, 0>>, <<0, 1, 0>>, <<0, 0, -1>>>>, 1),
     Rational(<<<<-1, 0, 0>>, <<0, -1, 0>>, <<0, 0, -1>>>>, 1),
     Rational(<<<<0, 1, 0>>, <<1, 0, 0>>, <<0, 0, 1>>>>, 1),
     Rational(<<<<1, 0, 0>>, <<0, 1, 0>>, <<0, 0, 0>>>>, 1),
     Rational(<<<<0, 0, 0>>, <<0, 0, 0>>, <<0, 0, 0>>>>, 1),
     Rational(<<<<1, 1, 0>>, <<0, 1, 0>>, <<0, 0, 1>>>>, 1),
     Rational(<<<<4, 0, 0>>, <<0, 1, 0>>, <<0, 0, 2>>>>, 2)}

Blocks == ValidBlocks \cup ScaledBlocks \cup InvalidBlocks

Translations == {<<0, 0, 0>>, <<1, 2, 3>>}

FourthRows == {<<0, 0, 0, 1>>, <<0, 0, 0, 8>>, <<0, 0, 0, 0>>, <<1, 0, 0, 1>>}

\* the r x c matrix with 3x3 block b, translation column t and fourth row r4
Assemble(b, t, r4, r, c) ==
    [n |-> [i \in 1..r |-> [j \in 1..c |->
                IF i <= 3 /\ j <= 3 THEN b.n[i][j]
                ELSE IF i <= 3 THEN t[i] * b.d
                ELSE r4[j] * b.d]],
     d |-> b.d,
     nan |-> FALSE]

\* the scale of a square entry is an exact rational (or zero, or not-a-number)
ExactScale(e) ==
    LET x == DetOf(e)
        g == GCD(x.n, x.d)
    IN  x.n <= 0 \/ (IsCube(x.n \div g) /\ IsCube(x.d \div g))

\* the trailing dimensions the docstrings list: (*, 3, 3), (*, 3, 4), (*, 4, 4)
DocumentedTrailing == {<<3, 3>>, <<3, 4>>, <<4, 4>>}

\* the blocks that are combined with translations, fourth rows and batches
FewBlocks ==
    {Rational(Rz90, 1),
     Rational(<<<<1, 0, 0>>, <<0, -1, 0>>, <<0, 0, -1>>>>, 1),
     Rational(<<<<0, -2, 0>>, <<2, 0, 0>>, <<0, 0, 2>>>>, 1),
     Rational(<<<<1, 0, 0>>, <<0, 1, 0>>, <<0, 0, -1>>>>, 1),
     Rational(<<<<1, 0, 0>>, <<0, 1, 0>>, <<0, 0, 0>>>>, 1)}

\* the entries of an unbatched tensor of trailing dimensions tr
EntriesOf(tr) ==
    IF tr = <<3, 3>> THEN {Assemble(b, <<0, 0, 0>>, <<0, 0, 0, 1>>, 3, 3) : b \in Blocks}
    ELSE IF tr = <<3, 4>>
        THEN {Assemble(b, t, <<0, 0, 0, 1>>, 3, 4) :
                b \in FewBlocks \cup {Rational(Rz90, 2)}, t \in Translations}
    ELSE {e \in {Assemble(b, t, r4, 4, 4) :
                    b \in FewBlocks \cup {Rational(Rz90, 2)}, t \in Translations, r4 \in FourthRows} :
            ExactScale(e)}

\* the first entry of a batched tensor of trailing dimensions tr
BatchEntriesOf(tr) ==
    {e \in {Assemble(b, <<1, 2, 3>>, r4, tr[1], tr[2]) :
                b \in FewBlocks, r4 \in {<<0, 0, 0, 1>>, <<0, 0, 0, 8>>}} :
        tr = <<3, 4>> \/ ExactScale(e)}

\* the value of the other entries of a batched tensor: the identity or a singular matrix
RestOf(tr) ==
    {Assemble(b, <<0, 0, 0>>, <<0, 0, 0, 1>>, tr[1], tr[2]) :
        b \in {Rational(Eye3, 1), Rational(<<<<1, 0, 0>>, <<0, 1, 0>>, <<0, 0, 0>>>>, 1)}}

BatchShapes == UNION {[1..k -> 1..MaxBatchDim] : k \in 0..MaxBatchRank}

Tensor(shape, main, rest) == [shape |-> shape, main |-> main, rest |-> rest]

ValidInputs ==
    UNION {UNION {
        IF b = <<>>
        THEN {Tensor(tr, e, e) : e \in EntriesOf(tr)}
        ELSE {Tensor(b \o tr, e, r) : e \in BatchEntriesOf(tr), r \in RestOf(tr)}
            : tr \in DocumentedTrailing} : b \in BatchShapes}

NoData == [n |-> <<>>, d |-> 1, nan |-> FALSE]

BadTrailing == {tr \in (2..4) \X (2..4) : tr \notin DocumentedTrailing}

\* tensors of fewer than two dimensions, and tensors whose trailing dimensions are not permitted
InvalidInputs ==
    {Tensor(sh, NoData, NoData) : sh \in {<<>>, <<3>>, <<4>>, <<9>>}}
        \cup {Tensor(b \o tr,
                     Assemble(Rational(Eye3, 1), <<1, 2, 3>>, <<0, 0, 0, 1>>, tr[1], tr[2]),
                     Assemble(Rational(Eye3, 1), <<0, 0, 0>>, <<0, 0, 0, 1>>, tr[1], tr[2])) :
                b \in BatchShapes, tr \in BadTrailing}

Inputs == ValidInputs \cup InvalidInputs

(***************************************************************************)
(* pypose/module/cost.py: the cost object.                                 *)
(*                                                                         *)
(* A state or an input is a tensor of shape (1, 2), kept as its row.  The  *)
(* tensors of the caller live in heap; an attribute of the object that     *)
(* holds a tensor is a reference: Alias(b) shares the storage of the       *)
(* caller's tensor b (torch.atleast_1d returns its argument), Copy(v) owns *)
(* its storage (torch.tensor copies), Missing is an attribute that was     *)
(* never assigned (reading it raises AttributeError).                      *)
(* A computed real is a record [n, d] of value n / d.                      *)
(***************************************************************************)
Missing == [kind |-> "missing", buf |-> "", val |-> <<>>]

\* the attribute _ref_c: never assigned, or the cost c computed by set_refpoint
NotCached == [set |-> FALSE, n |-> 0, d |-> 1]

Cached(c) == [set |-> TRUE, n |-> c.n, d |-> c.d]

Alias(b) == [kind |-> "alias", buf |-> b, val |-> <<>>]

Copy(v) == [kind |-> "copy", buf |-> "", val |-> v]

\* the content of the tensor a reference leads to
Value(f, h) == IF f.kind = "alias" THEN h[f.buf] ELSE f.val

NoneValue == [isnone |-> TRUE, k |-> 0]

Scalar(k) == [isnone |-> FALSE, k |-> k]

Matrix(ndim, rows) == [ndim |-> ndim, rows |-> rows]

Ok(v) == [kind |-> "ok", val |-> v]

\* a computed scalar, row and matrix of reals: the entries over the denominator d
Real(n, d) == [n |-> n, d |-> d]

RealRow(v, d) == [v |-> v, d |-> d]

RealMatrix(m, d) == [m |-> m, d |-> d]

\* a.matmul(b.mT) of two rows
Dot(a, b) == a[1] * b[1] + a[2] * b[2]

\* x.matmul(M) of a row and a matrix
VecMat(x, M) == <<x[1] * M[1][1] + x[2] * M[2][1], x[1] * M[1][2] + x[2] * M[2][2]>>



\* M.mT
mT(M) ==
    Matrix(M.ndim, <<<<M.rows[1][1], M.rows[2][1]>>, <<M.rows[1][2], M.rows[2][2]>>>>)

\* x.matmul(M).matmul(y.mT)
Bilinear(x, M, y) == Dot(VecMat(x, M.rows), y)

Cube(a) == a * a * a

Fourth(a) == a * a * a * a

\* Cost.__init__: no state, no input and no reference point yet
Cost__init__(kind) ==
    [kind |-> kind,
     Q |-> Matrix(0, <<>>), R |-> Matrix(0, <<>>), S |-> Matrix(0, <<>>),
     state |-> Missing, input |-> Missing,
     _ref_state |-> Missing, _ref_input |-> Missing, _ref_c |-> NotCached,
     _cxx |-> Matrix(0, <<>>), _cxu |-> Matrix(0, <<>>), _cux |-> Matrix(0, <<>>),
     _cuu |-> Matrix(0, <<>>), _c |-> NoneValue]

\* QuadCost.cxu.setter
QuadCost_set_cxu_Alone(o, v) == [o EXCEPT !._cxu = v]

QuadCost_set_cxu(o, v) == [o EXCEPT !._cxu = v, !._cux = mT(v)]

\* the quadratic terms taken in the order Q, S, R
QuadCost__init___Swapped(Q, R, S, c) ==
    IF ~(Q.ndim \in {2, 3} /\ R.ndim \in {2, 3} /\ Q.ndim = R.ndim /\ R.ndim = S.ndim)
        THEN Raise("AssertionError", "dimensions")
    ELSE Ok(QuadCost_set_cxu(
            [Cost__init__("QuadCost") EXCEPT !.Q = Q, !.R = R, !.S = S, !._c = c,
                                             !._cxx = Q, !._cuu = S], R))

\* QuadCost.__init__: the asserts, then Q, R, S, c and cxx, cuu, cxu through the setters
QuadCost__init__(Q, R, S, c) ==
    IF ~(Q.ndim \in {2, 3} /\ R.ndim \in {2, 3} /\ Q.ndim = R.ndim /\ R.ndim = S.ndim)
        THEN Raise("AssertionError", "dimensions")
    ELSE Ok(QuadCost_set_cxu(
            [Cost__init__("QuadCost") EXCEPT !.Q = Q, !.R = R, !.S = S, !._c = c,
                                             !._cxx = Q, !._cuu = R], S))

\* the cost method of the object at the state x and the input u: Cost.cost raises,
\* NonQuadCost is the example of the class documentation, QuadCost.cost is
\* (x Q x' + x S u' + u S' x' + u R u') / 2 + c
cost(o, x, u) ==
    IF o.kind = "Cost"
        THEN Raise("NotImplementedError", "cost")
    ELSE IF o.kind = "NonQuadCost"
        THEN Ok(Real(Cube(x[1]) + Cube(x[2]) + Fourth(u[1]) + Fourth(u[2]) + Dot(x, u), 1))
    ELSE IF o._c.isnone
        THEN Raise("TypeError", "c")
    ELSE Ok(Real(Bilinear(x, o.Q, x) + Bilinear(x, o.S, u) + Bilinear(u, mT(o.S), x)
                 + Bilinear(u, o.R, u) + 2 * o._c.k, 2))

\* the state and the input recorded the wrong way round
forward_self_Swapped(o, s, u) == [o EXCEPT !.state = Alias(u), !.input = Alias(s)]

\* Cost.forward, line 75: the object after the call
forward_self(o, s, u) == [o EXCEPT !.state = Alias(s), !.input = Alias(u)]

\* Cost.forward, line 76: what the call returns, o the object after line 75
forward(o, h) == cost(o, Value(o.state, h), Value(o.input, h))

\* the outcome of a method: the object it leaves and what it returns or raises
Outcome(o, r) == [self |-> o, ret |-> r]

\* set_refpoint, line 108: the cost at the reference point just recorded
set_ref_c(o, h, c) ==
    IF IsError(c) THEN Outcome(o, c)
    ELSE Outcome([o EXCEPT !._ref_c = Cached(c.val)], Ok(NoneValue))

\* set_refpoint, lines 106 and 107: torch.tensor(recent) if arg is None else
\* torch.atleast_1d(arg); Missing stands for the AttributeError of reading recent
Reference(arg, recent, h) ==
    IF arg # "None" THEN Alias(arg)
    ELSE IF recent.kind = "missing" THEN Missing
    ELSE Copy(Value(recent, h))

\* set_refpoint, line 107 and on, _ref_state assigned
set_ref_input(o, h, u) ==
    IF Reference(u, o.input, h).kind = "missing"
        THEN Outcome(o, Raise("AttributeError", "input"))
    ELSE set_ref_c([o EXCEPT !._ref_input = Reference(u, o.input, h)], h,
                   cost(o, Value(o._ref_state, h), Value(Reference(u, o.input, h), h)))

\* Cost.set_refpoint(state, input), the three assignments in their order
set_refpoint(o, h, s, u) ==
    IF Reference(s, o.state, h).kind = "missing"
        THEN Outcome(o, Raise("AttributeError", "state"))
    ELSE set_ref_input([o EXCEPT !._ref_state = Reference(s, o.state, h)], h, u)

\* both attributes of the reference point exist
HasRefpoint(o) == o._ref_state.kind # "missing" /\ o._ref_input.kind # "missing"

\* the denominator of the reals the cost of the object computes
Den(o) == IF o.kind = "QuadCost" THEN 2 ELSE 1

\* M + M.mT
Symmetrized(M) ==
    <<<<2 * M[1][1], M[1][2] + M[2][1]>>, <<M[1][2] + M[2][1], 2 * M[2][2]>>>>

Diagonal(a, b) == <<<<a, 0>>, <<0, b>>>>

\* jacobian(lambda x: cost(x, u), x): the gradient of the cost in the state
jacobian_x(o, x, u) ==
    IF o.kind = "NonQuadCost"
        THEN RealRow(<<3 * x[1] * x[1] + u[1], 3 * x[2] * x[2] + u[2]>>, Den(o))
    ELSE RealRow(<<Dot(Symmetrized(o.Q.rows)[1], x) + 2 * Dot(o.S.rows[1], u),
                   Dot(Symmetrized(o.Q.rows)[2], x) + 2 * Dot(o.S.rows[2], u)>>, Den(o))

\* jacobian(lambda u: cost(x, u), u): the gradient of the cost in the input
jacobian_u(o, x, u) ==
    IF o.kind = "NonQuadCost"
        THEN RealRow(<<4 * Cube(u[1]) + x[1], 4 * Cube(u[2]) + x[2]>>, Den(o))
    ELSE RealRow(<<Dot(Symmetrized(o.R.rows)[1], u) + 2 * Dot(mT(o.S).rows[1], x),
                   Dot(Symmetrized(o.R.rows)[2], u) + 2 * Dot(mT(o.S).rows[2], x)>>, Den(o))

\* the nested jacobians: the second derivatives of the cost
jacobian_xx(o, x, u) ==
    IF o.kind = "NonQuadCost" THEN RealMatrix(Diagonal(6 * x[1], 6 * x[2]), Den(o))
    ELSE RealMatrix(Symmetrized(o.Q.rows), Den(o))

jacobian_xu(o, x, u) ==
    IF o.kind = "NonQuadCost" THEN RealMatrix(Diagonal(1, 1), Den(o))
    ELSE RealMatrix(<<<<2 * o.S.rows[1][1], 2 * o.S.rows[1][2]>>,
                      <<2 * o.S.rows[2][1], 2 * o.S.rows[2][2]>>>>, Den(o))

jacobian_ux(o, x, u) ==
    IF o.kind = "NonQuadCost" THEN RealMatrix(Diagonal(1, 1), Den(o))
    ELSE RealMatrix(<<<<2 * o.S.rows[1][1], 2 * o.S.rows[2][1]>>,
                      <<2 * o.S.rows[1][2], 2 * o.S.rows[2][2]>>>>, Den(o))

jacobian_uu(o, x, u) ==
    IF o.kind = "NonQuadCost"
        THEN RealMatrix(Diagonal(12 * u[1] * u[1], 12 * u[2] * u[2]), Den(o))
    ELSE RealMatrix(Symmetrized(o.R.rows), Den(o))

\* the derivative that the property p of Cost takes of the cost
Jacobian(p, o, x, u) ==
    CASE p = "cx" -> jacobian_x(o, x, u)
      [] p = "cu" -> jacobian_u(o, x, u)
      [] p = "cxx" -> jacobian_xx(o, x, u)
      [] p = "cxu" -> jacobian_xu(o, x, u)
      [] p = "cux" -> jacobian_ux(o, x, u)
      [] p = "cuu" -> jacobian_uu(o, x, u)

\* a derivative property of Cost: the reference point is read, the cost is evaluated
\* there and differentiated
Differentiated(o, h, p) ==
    IF ~HasRefpoint(o)
        THEN Raise("AttributeError", "reference point")
    ELSE IF IsError(cost(o, Value(o._ref_state, h), Value(o._ref_input, h)))
        THEN cost(o, Value(o._ref_state, h), Value(o._ref_input, h))
    ELSE Ok(Jacobian(p, o, Value(o._ref_state, h), Value(o._ref_input, h)))

Cost_cx(o, h) == Differentiated(o, h, "cx")

Cost_cu(o, h) == Differentiated(o, h, "cu")

Cost_cxx(o, h) == Differentiated(o, h, "cxx")

Cost_cxu(o, h) == Differentiated(o, h, "cxu")

Cost_cux(o, h) == Differentiated(o, h, "cux")

Cost_cuu(o, h) == Differentiated(o, h, "cuu")

\* the constant term at the state x, the input u and the cached cost c, its parts over Den(o)
ConstantTerm(o, x, u, c) ==
    Real(2 * c.n - 2 * Dot(x, jacobian_x(o, x, u).v) - 2 * Dot(u, jacobian_u(o, x, u).v)
         - Dot(VecMat(x, jacobian_xx(o, x, u).m), x) - Dot(VecMat(x, jacobian_xu(o, x, u).m), u)
         - Dot(VecMat(u, jacobian_ux(o, x, u).m), x) - Dot(VecMat(u, jacobian_uu(o, x, u).m), u),
         2 * Den(o))

\* Cost.c: _ref_c less the linear and the quadratic terms at the reference point
Cost_c(o, h) ==
    IF ~o._ref_c.set \/ ~HasRefpoint(o)
        THEN Raise("AttributeError", "reference point")
    ELSE IF IsError(cost(o, Value(o._ref_state, h), Value(o._ref_input, h)))
        THEN cost(o, Value(o._ref_state, h), Value(o._ref_input, h))
    ELSE Ok(ConstantTerm(o, Value(o._ref_state, h), Value(o._ref_input, h), o._ref_c))

\* the properties QuadCost overrides return what was stored
QuadCost_cxx(o) == Ok(o._cxx)

QuadCost_cxu(o) == Ok(o._cxu)

QuadCost_cux(o) == Ok(o._cux)

QuadCost_cuu(o) == Ok(o._cuu)

QuadCost_c(o) == Ok(o._c)

Props == {"cx", "cu", "cxx", "cxu", "cux", "cuu", "c"}

\* QuadCost without its overrides: every property is the one of Cost
Property_Inherited(o, h, p) ==
    CASE p = "cx" -> Cost_cx(o, h)
      [] p = "cu" -> Cost_cu(o, h)
      [] p = "cxx" -> Cost_cxx(o, h)
      [] p = "cxu" -> Cost_cxu(o, h)
      [] p = "cux" -> Cost_cux(o, h)
      [] p = "cuu" -> Cost_cuu(o, h)
      [] p = "c" -> Cost_c(o, h)

\* reading the property p of the object: the properties of Cost, overridden by QuadCost
Property(o, h, p) ==
    CASE p = "cx" -> Cost_cx(o, h)
      [] p = "cu" -> Cost_cu(o, h)
      [] p = "cxx" -> IF o.kind = "QuadCost" THEN QuadCost_cxx(o) ELSE Cost_cxx(o, h)
      [] p = "cxu" -> IF o.kind = "QuadCost" THEN QuadCost_cxu(o) ELSE Cost_cxu(o, h)
      [] p = "cux" -> IF o.kind = "QuadCost" THEN QuadCost_cux(o) ELSE Cost_cux(o, h)
      [] p = "cuu" -> IF o.kind = "QuadCost" THEN QuadCost_cuu(o) ELSE Cost_cuu(o, h)
      [] p = "c" -> IF o.kind = "QuadCost" THEN QuadCost_c(o) ELSE Cost_c(o, h)

\* the assignment self.p = v: the setters of QuadCost; a property without a setter
\* cannot be assigned
Assignment(o, p, v) ==
    IF o.kind # "QuadCost" \/ p \in {"cx", "cu", "cux"}
        THEN Outcome(o, Raise("AttributeError", "can't set attribute"))
    ELSE IF p = "cxx" THEN Outcome([o EXCEPT !._cxx = v], Ok(NoneValue))
    ELSE IF p = "cxu" THEN Outcome(QuadCost_set_cxu(o, v), Ok(NoneValue))
    ELSE IF p = "cuu" THEN Outcome([o EXCEPT !._cuu = v], Ok(NoneValue))
    ELSE Outcome([o EXCEPT !._c = v], Ok(NoneValue))

(***************************************************************************)
(* The cost object and its caller.  The caller holds the tensors x (a      *)
(* state), u (an input) and zeros (passed as either, never modified), and  *)
(* calls the object: it evaluates it, sets the reference point, reads and  *)
(* assigns the properties, and modifies its own tensors x and u in place.  *)
(***************************************************************************)
MaxModify == 1
MaxAssign == 1

Tensors == {"x", "u", "zeros"}

CallerTensors == [x |-> <<1, 0>>, u |-> <<0, 2>>, zeros |-> <<0, 0>>]

\* what the caller passes to set_refpoint for an argument it does not omit
StateArgs == {"x", "zeros"}

InputArgs == {"u", "zeros"}

\* the arguments of the constructor of QuadCost
QuadArgs ==
    {Matrix(2, <<<<2, 1>>, <<0, 1>>>>)}
        \X {Matrix(2, <<<<1, 0>>, <<0, 2>>>>)}
        \X {Matrix(2, <<<<0, 1>>, <<0, 0>>>>), Matrix(3, <<<<0, 1>>, <<0, 0>>>>)}
        \X {NoneValue, Scalar(1)}

\* the objects the constructors return
Objects ==
    {Cost__init__("Cost"), Cost__init__("NonQuadCost")}
        \cup {QuadCost__init__(a[1], a[2], a[3], a[4]).val :
                a \in {b \in QuadArgs : ~IsError(QuadCost__init__(b[1], b[2], b[3], b[4]))}}

\* the values the caller assigns to the property p
Assigned(p) == IF p = "c" THEN {Scalar(2)} ELSE {Matrix(2, <<<<0, 1>>, <<2, 0>>>>)}

\* the number of times the caller has modified its tensors
Modifications(h) ==
    (h["x"][1] - CallerTensors["x"][1]) + (h["u"][1] - CallerTensors["u"][1])

NoObject == [kind |-> "none"]

\* the reference point and the cached cost of the object
Refpoint(o) == <<o._ref_state, o._ref_input, o._ref_c>>

\* what the caller can observe of the reference point: the state and the input recorded
\* and the derivatives read there
Observed(o, h) ==
    IF ~HasRefpoint(o) THEN <<>>
    ELSE <<Value(o._ref_state, h), Value(o._ref_input, h),
           Property(o, h, "cx"), Property(o, h, "cu"), Property(o, h, "cxx"),
           Property(o, h, "cxu"), Property(o, h, "cux"), Property(o, h, "cuu")>>

\* the record of the last call: the operation, its arguments, what it returned or raised,
\* of set_refpoint whether a reference point was recorded before the call, and what was
\* there before the call (before a set_refpoint that raised: the reference point; before
\* a modification by the caller: what it could observe)
Ret(op, a1, a2, r, was, before) ==
    [op |-> op, a1 |-> a1, a2 |-> a2, out |-> r, was |-> was, before |-> before]

NoCall == Ret("none", "", "", Ok(NoneValue), "", <<>>)


(***************************************************************************)
(* The state machine: an input tensor, and one call of a converter on it.   *)
(* The converters are pure functions, so a behaviour is one application.   *)
(***************************************************************************)
Init ==
    /\ mat \in Inputs
    /\ called = "none"
    /\ check = FALSE
    /\ ltype = "none"
    /\ out = [kind |-> "none"]
    /\ self = NoObject
    /\ heap = CallerTensors
    /\ evaluated = <<>>
    /\ assigns = 0
    /\ ret = NoCall

Call_mat2SO3 ==
    \E chk \in BOOLEAN :
        /\ called = "none"
        /\ called' = "mat2SO3" /\ check' = chk /\ ltype' = "none"
        /\ out' = mat2SO3(mat, chk)
        /\ UNCHANGED <<mat, costobject>>

Call_mat2SE3 ==
    \E chk \in BOOLEAN :
        /\ called = "none"
        /\ called' = "mat2SE3" /\ check' = chk /\ ltype' = "none"
        /\ out' = mat2SE3(mat, chk)
        /\ UNCHANGED <<mat, costobject>>

Call_mat2Sim3 ==
    \E chk \in BOOLEAN :
        /\ called = "none"
        /\ called' = "mat2Sim3" /\ check' = chk /\ ltype' = "none"
        /\ out' = mat2Sim3(mat, chk)
        /\ UNCHANGED <<mat, costobject>>

Call_mat2RxSO3 ==
    \E chk \in BOOLEAN :
        /\ called = "none"
        /\ called' = "mat2RxSO3" /\ check' = chk /\ ltype' = "none"
        /\ out' = mat2RxSO3(mat, chk)
        /\ UNCHANGED <<mat, costobject>>

Call_from_matrix ==
    \E chk \in BOOLEAN, lt \in LTypes :
        /\ called = "none"
        /\ called' = "from_matrix" /\ check' = chk /\ ltype' = lt
        /\ out' = from_matrix(mat, lt, chk)
        /\ UNCHANGED <<mat, costobject>>

Next ==
    \/ Call_mat2SO3
    \/ Call_mat2SE3
    \/ Call_mat2Sim3
    \/ Call_mat2RxSO3
    \/ Call_from_matrix

Spec == Init /\ [][Next]_vars

CostInit ==
    /\ self \in Objects
    /\ heap = CallerTensors
    /\ evaluated = <<>>
    /\ assigns = 0
    /\ ret = NoCall
    /\ mat = Tensor(<<>>, NoData, NoData)
    /\ called = "none"
    /\ check = FALSE
    /\ ltype = "none"
    /\ out = [kind |-> "none"]

\* cost_value = obj(state, input), at the state and the input of the caller
Forward ==
    \E s \in {"x"}, u \in {"u"} :
        /\ self' = forward_self(self, s, u)
        /\ ret' = Ret("forward", s, u, forward(forward_self(self, s, u), heap), "", <<>>)
        /\ evaluated' = <<s, u>>
        /\ UNCHANGED <<heap, assigns, converter>>

\* obj.set_refpoint(state, input), either argument possibly omitted
SetRefpoint ==
    \E s \in StateArgs \cup {"None"}, u \in InputArgs \cup {"None"} :
        /\ self' = set_refpoint(self, heap, s, u).self
        /\ ret' = Ret("set_refpoint", s, u, set_refpoint(self, heap, s, u).ret,
                     IF HasRefpoint(self) THEN "Set" ELSE "Unset",
                     IF IsError(set_refpoint(self, heap, s, u).ret) THEN Refpoint(self) ELSE <<>>)
        /\ UNCHANGED <<heap, evaluated, assigns, converter>>

\* obj.p
Read ==
    \E p \in Props :
        /\ ret' = Ret("read", p, "", Property(self, heap, p), "", <<>>)
        /\ UNCHANGED <<self, heap, evaluated, assigns, converter>>

\* obj.p = v
Assign ==
    \E p \in Props : \E v \in Assigned(p) :
        /\ assigns < MaxAssign
        /\ self' = Assignment(self, p, v).self
        /\ assigns' = IF IsError(Assignment(self, p, v).ret) THEN assigns ELSE assigns + 1
        /\ ret' = Ret("assign", p, "", Assignment(self, p, v).ret, "", <<>>)
        /\ UNCHANGED <<heap, evaluated, converter>>

\* b.add_(1): the caller modifies one of its tensors in place, MaxModify times at most
Modify ==
    \E b \in {"x", "u"} :
        /\ Modifications(heap) < MaxModify
        /\ heap' = [heap EXCEPT ![b] = <<@[1] + 1, @[2] + 1>>]
        /\ ret' = Ret("modify", b, "", Ok(NoneValue), "", Observed(self, heap))
        /\ UNCHANGED <<self, evaluated, assigns, converter>>

CostNext ==
    \/ Forward
    \/ SetRefpoint
    \/ Read
    \/ Assign
    \/ Modify

SpecCost == CostInit /\ [][CostNext]_vars

(***************************************************************************)
(* mat2SO3 without the validity check on matrices that are no rotations    *)
(* and whose entries reach beyond the integers float32 holds exactly.      *)
(***************************************************************************)
\* the diagonal entries R00 and R11
LargeEntries == {Pow2(25), -Pow2(25), Pow2(25) + 4, Pow2(Mantissa), 1, 0}

\* the diagonal entry R22
LastEntries == {0, 1, -1}

LargeInputs ==
    {Tensor(<<3, 3>>, Rational(<<<<a, 0, 0>>, <<0, b, 0>>, <<0, 0, c>>>>, 1),
                      Rational(<<<<a, 0, 0>>, <<0, b, 0>>, <<0, 0, c>>>>, 1)) :
        a \in LargeEntries, b \in LargeEntries, c \in LastEntries}

LargeInit ==
    /\ mat \in LargeInputs
    /\ called = "none"
    /\ check = FALSE
    /\ ltype = "none"
    /\ out = [kind |-> "none"]
    /\ self = NoObject
    /\ heap = CallerTensors
    /\ evaluated = <<>>
    /\ assigns = 0
    /\ ret = NoCall

\* mat2SO3(mat, check=False)
Call_mat2SO3_Unchecked ==
    /\ called = "none"
    /\ called' = "mat2SO3" /\ check' = FALSE /\ ltype' = "none"
    /\ out' = mat2SO3(mat, FALSE)
    /\ UNCHANGED <<mat, costobject>>

LargeNext == Call_mat2SO3_Unchecked

SpecLarge == LargeInit /\ [][LargeNext]_vars

(***************************************************************************)
(* Vocabulary of the properties.                                           *)
(***************************************************************************)
Converted == called # "none" /\ out.kind = "ok"

ShapeAccepted == Len(mat.shape) >= 2 /\ Trailing(mat.shape) \in {<<3, 3>>, <<3, 4>>, <<4, 4>>}

\* the batch entries of the input
InEntries == {mat.main, mat.rest}

\* the batch entries of the input, each with the batch entry of the output it yields
EntryPairs == {<<mat.main, out.main>>, <<mat.rest, out.rest>>}

\* the numerator of (b * b^T)[i][j], over b.d * b.d
Gram(b, i, j) == b.n[i][1]*b.n[j][1] + b.n[i][2]*b.n[j][2] + b.n[i][3]*b.n[j][3]

\* the leading 3x3 block of e is a rotation matrix: e * e^T = I and det e = 1
IsRotation(e) ==
    /\ \A i \in 1..3 : \A j \in 1..3 : Gram(e, i, j) = (IF i = j THEN e.d * e.d ELSE 0)
    /\ Det3(Slice(e.n, 3, 3)) = e.d * e.d * e.d

\* the leading 3x3 block of e is a rotation matrix times a positive scale
IsScaledRotation(e) ==
    /\ \A i \in 1..3 : \A j \in 1..3 : Gram(e, i, j) = (IF i = j THEN Gram(e, 1, 1) ELSE 0)
    /\ Det3(Slice(e.n, 3, 3)) > 0

\* the components of q are finite numbers
Finite(q) == ~q.nan /\ q.t > 0

\* 4 * q.t * q.d times the rotation matrix of the unit quaternion q = (x, y, z, w),
\* the products of two components of q being raw[i] * raw[j] / (4 * q.t * q.d)
QuatMatrix(q) ==
    LET x == q.raw[1]
        y == q.raw[2]
        z == q.raw[3]
        w == q.raw[4]
        one == 4 * q.t * q.d
    IN  << <<one - 2*(y*y + z*z), 2*(x*y - z*w), 2*(x*z + y*w)>>,
           <<2*(x*y + z*w), one - 2*(x*x + z*z), 2*(y*z - x*w)>>,
           <<2*(x*z - y*w), 2*(y*z + x*w), one - 2*(x*x + y*y)>> >>

\* the rotation matrix of q is the leading 3x3 block of e
Rebuilds(q, e) ==
    /\ Finite(q)
    /\ \A i \in 1..3 : \A j \in 1..3 : QuatMatrix(q)[i][j] * e.d = 4 * q.t * q.d * e.n[i][j]

(***************************************************************************)
(* C1: for every valid rotation matrix R, the rotation matrix rebuilt from *)
(* the quaternion mat2SO3(R) returns is R again, whichever branch was      *)
(* selected.                                                               *)
(***************************************************************************)
C1_RoundTrip ==
    (called = "mat2SO3" /\ out.kind = "ok") =>
        \A p \in EntryPairs : IsRotation(p[1]) => Rebuilds(p[2].q, p[1])

\* a rotation that is not symmetric (3/5, 4/5 about z) converted through the fourth branch
C1_Witness ==
    /\ called = "mat2SO3" /\ out.kind = "ok"
    /\ mat.main.d = 5 /\ mat.main.n[1][2] = -4 /\ IsRotation(mat.main)
    /\ out.main.q.mask = <<0, 0, 0, 1>>
    /\ Rebuilds(out.main.q, mat.main)

(***************************************************************************)
(* C2: in mat2SO3, for every batch entry and every input matrix, valid     *)
(* rotation or not, exactly one of the four branch masks mask_c0..mask_c3  *)
(* is set, so the masked sums select one candidate and one trace term.     *)
(***************************************************************************)
C2_OneBranch ==
    Converted =>
        \A o \in {out.main, out.rest} :
            /\ \A k \in 1..4 : o.q.mask[k] \in {0, 1}
            /\ o.q.mask[1] + o.q.mask[2] + o.q.mask[3] + o.q.mask[4] = 1

\* an unchecked matrix that is no rotation (a shear), with R22 >= eps and R00 >= -R11
C2_Witness ==
    /\ called = "mat2SO3" /\ ~check /\ out.kind = "ok"
    /\ mat.main.n[1][2] = 1 /\ mat.main.n[2][1] = 0 /\ ~IsRotation(mat.main)
    /\ out.main.q.mask = <<0, 0, 0, 1>>

(***************************************************************************)
(* C3: mat2SO3, mat2SE3, mat2Sim3, mat2RxSO3 and from_matrix fail with a   *)
(* shape error (ValueError) before any other computation whenever the      *)
(* input has fewer than 2 dimensions or its trailing two dimensions are    *)
(* not (3,3), (3,4) or (4,4).                                              *)
(***************************************************************************)
C3_ShapeError ==
    (called # "none" /\ ~ShapeAccepted) =>
        out = [kind |-> "ValueError", msg |-> IF Len(mat.shape) < 2 THEN "dims" ELSE "shape"]

\* a 4x3 batch given to from_matrix with an unknown ltype: the shape error comes first
C3_Witness ==
    /\ called = "from_matrix" /\ ltype = "so3_type"
    /\ Len(mat.shape) = 3 /\ Trailing(mat.shape) = <<4, 3>>
    /\ out = [kind |-> "ValueError", msg |-> "shape"]

(***************************************************************************)
(* C4: mat2SO3 with check set fails with an invalid-rotation error         *)
(* (ValueError) whenever the leading 3x3 block M of some batch entry does  *)
(* not satisfy M * M^T = I or det M = 1, and returns a quaternion when     *)
(* every batch entry's block is orthogonal with determinant 1.             *)
(***************************************************************************)
C4_CheckedRotation ==
    (called = "mat2SO3" /\ check /\ ShapeAccepted) =>
        IF \A e \in InEntries : IsRotation(e)
        THEN out.kind = "ok"
        ELSE out.kind = "ValueError" /\ out.msg \in {"orthogonal", "det"}

\* a batch whose first entry is a rotation and whose other entries are a singular matrix
C4_Witness ==
    /\ called = "mat2SO3" /\ check
    /\ Len(mat.shape) = 4 /\ Trailing(mat.shape) = <<3, 3>>
    /\ IsRotation(mat.main) /\ ~IsRotation(mat.rest)
    /\ out.kind = "ValueError"

(***************************************************************************)
(* C5: for 3x3, 3x4 and 4x4 inputs, mat2Sim3 and mat2RxSO3 compute the     *)
(* scale s as the cube root of the determinant of the upper-left 3x3       *)
(* block only; the translation column and the fourth row do not influence  *)
(* s, and a 3x4 input is converted rather than rejected.                   *)
(***************************************************************************)
C5_ScaleOfBlock ==
    (/\ called \in {"mat2Sim3", "mat2RxSO3"}
     /\ ShapeAccepted
     /\ \A e \in InEntries : IsScaledRotation(e))
        => /\ out # [kind |-> "RuntimeError", msg |-> "det of non-square matrix"]
           /\ out # [kind |-> "ValueError", msg |-> "rank"]
           /\ out.kind = "ok" =>
                \A p \in EntryPairs :
                    /\ ~p[2].s.nan
                    /\ p[2].s.n * p[2].s.n * p[2].s.n * p[1].d * p[1].d * p[1].d
                            = Det3(Slice(p[1].n, 3, 3)) * p[2].s.d * p[2].s.d * p[2].s.d

(***************************************************************************)
(* C6: mat2Sim3 and mat2RxSO3 raise the singular-scale error (ValueError)  *)
(* whenever at least one batch entry of the input is a singular matrix,    *)
(* also when the other batch entries are non-singular.                     *)
(***************************************************************************)
C6_SingularRaises ==
    (/\ called \in {"mat2Sim3", "mat2RxSO3"}
     /\ ShapeAccepted
     /\ Trailing(mat.shape) \in {<<3, 3>>, <<4, 4>>}
     /\ \E e \in InEntries : (IF Len(e.n) = 3 THEN Det3(e.n) ELSE Det4(e.n)) = 0
     /\ \A e \in InEntries : (IF Len(e.n) = 3 THEN Det3(e.n) ELSE Det4(e.n)) >= 0)
        => out = [kind |-> "ValueError", msg |-> "rank"]

(***************************************************************************)
(* C7: whenever mat2Sim3 or mat2RxSO3 returns a value, the scale s of      *)
(* every batch entry is a strictly positive number; an input whose 3x3     *)
(* block has zero or negative determinant is rejected with an error, never *)
(* turned into an output whose s is zero, negative or not-a-number.        *)
(***************************************************************************)
C7_PositiveScale ==
    (called \in {"mat2Sim3", "mat2RxSO3"} /\ out.kind = "ok") =>
        \A p \in EntryPairs :
            /\ ~p[2].s.nan /\ p[2].s.n > 0 /\ p[2].s.d > 0
            /\ Det3(Slice(p[1].n, 3, 3)) > 0

(***************************************************************************)
(* C8: every converter accepts any tuple of leading batch dimensions and   *)
(* preserves it: an input of shape (b1,...,bk,r,c), (r,c) permitted,       *)
(* holding non-singular scaled rotations is converted by mat2SO3, mat2SE3, *)
(* mat2Sim3 and mat2RxSO3 to an output of shape (b1,...,bk,4), (..,7),     *)
(* (..,8) and (..,5), without a shape or broadcasting error.               *)
(* Stated for square inputs in homogeneous form, where the scale is the    *)
(* one of the 3x3 block.                                                   *)
(***************************************************************************)
C8_BatchPreserved ==
    (/\ called \in {"mat2SO3", "mat2SE3", "mat2Sim3", "mat2RxSO3"}
     /\ ~check
     /\ ShapeAccepted
     /\ Trailing(mat.shape) \in {<<3, 3>>, <<4, 4>>}
     /\ \A e \in InEntries :
            IsScaledRotation(e) /\ (Len(e.n) = 4 => e.n[4] = <<0, 0, 0, e.d>>))
        => /\ out.kind = "ok"
           /\ out.shape = BatchOf(mat.shape) \o
                <<CASE called = "mat2SO3" -> 4 [] called = "mat2SE3" -> 7
                    [] called = "mat2Sim3" -> 8 [] called = "mat2RxSO3" -> 5>>

\* the input with the fourth row of every 4x4 batch entry replaced by (5, 6, 7, 9)
OtherFourthRow ==
    LET swap(e) == [e EXCEPT !.n = [i \in 1..Len(e.n) |->
                        IF i = 4 THEN <<5 * e.d, 6 * e.d, 7 * e.d, 9 * e.d>> ELSE e.n[i]]]
    IN  [mat EXCEPT !.main = swap(mat.main), !.rest = swap(mat.rest)]

(***************************************************************************)
(* C9: mat2SE3 returns [t, q] where q is exactly the quaternion mat2SO3    *)
(* returns for the leading 3x3 block, t is the first three entries of the  *)
(* fourth column of a 3x4 or 4x4 input and the zero vector of the same     *)
(* batch shape for a 3x3 input; the fourth row of a 4x4 input has no       *)
(* effect on the output.                                                   *)
(***************************************************************************)
C9_RigidLayout ==
    (called = "mat2SE3" /\ ShapeAccepted) =>
        LET so3 == mat2SO3(mat, check)
        IN  /\ out.kind = so3.kind
            /\ out = mat2SE3(OtherFourthRow, check)
            /\ out.kind = "ok" =>
                /\ out.shape = BatchOf(mat.shape) \o <<7>>
                /\ \A p \in EntryPairs :
                    /\ p[2].q.raw = Shepperd(Block33(p[1])).raw
                    /\ p[2].q.t = Shepperd(Block33(p[1])).t
                    /\ \A i \in 1..3 :
                        p[2].t.v[i] * p[1].d =
                            (IF Len(p[1].n[1]) = 3 THEN 0 ELSE p[1].n[i][4]) * p[2].t.d

\* a batch of 4x4 matrices with translation (1, 2, 3) and fourth row (0, 0, 0, 8)
C9_Witness ==
    /\ called = "mat2SE3" /\ out.kind = "ok"
    /\ Len(mat.shape) = 3 /\ Trailing(mat.shape) = <<4, 4>>
    /\ mat.main.n[4] = <<0, 0, 0, 8>>
    /\ out.main.t = [v |-> <<1, 2, 3>>, d |-> 1]
    /\ out.rest.t = [v |-> <<0, 0, 0>>, d |-> 1]

\* q selects branch k and its only non-zero component is component c, of value 1
Canonical(q, k, c) ==
    /\ Finite(q)
    /\ q.mask = [i \in 1..4 |-> IF i = k THEN 1 ELSE 0]
    /\ \A i \in 1..4 : i # c => q.raw[i] = 0
    /\ q.raw[c] > 0
    /\ q.raw[c] * q.raw[c] = 4 * q.t * q.d

Diag(a, b, c) == <<<<a, 0, 0>>, <<0, b, 0>>, <<0, 0, c>>>>

(***************************************************************************)
(* C10: the four Shepperd branches are reachable and correct on their      *)
(* canonical inputs: the identity selects the w-dominant branch and yields *)
(* (0,0,0,1); the 180-degree rotations about x, y and z select the three   *)
(* other branches and yield unit quaternions whose only non-zero component *)
(* is x, y and z; the 90-degree rotation about z yields x = y = 0 and      *)
(* z = w > 0 with z^2 = w^2 = 1/2.                                         *)
(***************************************************************************)
C10_Branches ==
    (called = "mat2SO3" /\ out.kind = "ok" /\ mat.main.d = 1) =>
        LET R == Slice(mat.main.n, 3, 3)
            q == out.main.q
        IN  /\ R = Diag(1, 1, 1) => Canonical(q, 4, 4)
            /\ R = Diag(1, -1, -1) => Canonical(q, 1, 1)
            /\ R = Diag(-1, 1, -1) => Canonical(q, 2, 2)
            /\ R = Diag(-1, -1, 1) => Canonical(q, 3, 3)
            /\ R = <<<<0, -1, 0>>, <<1, 0, 0>>, <<0, 0, 1>>>> =>
                    /\ Finite(q)
                    /\ q.raw[1] = 0 /\ q.raw[2] = 0
                    /\ q.raw[3] = q.raw[4] /\ q.raw[4] > 0
                    /\ 2 * q.raw[3] * q.raw[3] = 4 * q.t * q.d

\* the 180-degree rotation about y converted through the second branch
C10_Witness ==
    /\ called = "mat2SO3" /\ out.kind = "ok"
    /\ mat.main.d = 1 /\ Slice(mat.main.n, 3, 3) = Diag(-1, 1, -1)
    /\ out.main.q.mask = <<0, 1, 0, 0>>
    /\ out.main.q.raw = <<0, 4, 0, 0>> /\ out.main.q.t = 4

(***************************************************************************)
(* Vocabulary of the properties of the cost object.                        *)
(***************************************************************************)
\* no reference point was recorded, not even a part of one
Unset(o) ==
    o._ref_state.kind = "missing" /\ o._ref_input.kind = "missing" /\ ~o._ref_c.set

\* the transpose of the 2x2 matrix n
Transposed(n) == <<<<n[1][1], n[2][1]>>, <<n[1][2], n[2][2]>>>>

\* the last call read a property
HasRead == ret.op = "read"

\* the last call was set_refpoint
HasSetRefpoint == ret.op = "set_refpoint"

\* what QuadCost stores for the property p
Stored(o, p) ==
    CASE p = "cxx" -> o._cxx
      [] p = "cxu" -> o._cxu
      [] p = "cux" -> o._cux
      [] p = "cuu" -> o._cuu
      [] p = "c" -> o._c

(***************************************************************************)
(* C11, as claimed: on an Unset cost object, reading any of cx, cu, cxx,   *)
(* cxu, cux, cuu, c fails with an error and returns no value, for the      *)
(* generic Cost and for QuadCost alike.                                    *)
(***************************************************************************)
C11_UnsetFails ==
    (HasRead /\ Unset(self)) => IsError(ret.out)

(***************************************************************************)
(* C11, amended: on an Unset cost object, reading cx or cu fails with an   *)
(* error, and so does reading cxx, cxu, cux, cuu or c of a generic Cost;   *)
(* reading cxx, cxu, cux, cuu or c of an Unset QuadCost returns, without   *)
(* an error, the term the object stores.                                   *)
(***************************************************************************)
C11_UnsetReads ==
    (HasRead /\ Unset(self)) =>
        IF self.kind = "QuadCost" /\ ret.a1 \notin {"cx", "cu"}
            THEN ~IsError(ret.out) /\ ret.out.val = Stored(self, ret.a1)
        ELSE IsError(ret.out)

\* cux read from a QuadCost that was evaluated, its reference point never set
C11_Witness ==
    /\ HasRead /\ Unset(self) /\ evaluated # <<>>
    /\ self.kind = "QuadCost" /\ ret.a1 = "cux"
    /\ ~IsError(ret.out) /\ ret.out.val.rows = <<<<0, 0>>, <<1, 0>>>>

C13_Copies ==
    (ret.op = "modify" /\ HasRefpoint(self) /\ self._ref_c.set) =>
        Observed(self, heap) = ret.before

(***************************************************************************)
(* C14: of a QuadCost, cux is the transpose of cxu in every reachable      *)
(* state: after the construction with S, after evaluations and             *)
(* set_refpoint, and after every assignment to cxu; cux cannot be assigned *)
(* on its own.                                                             *)
(***************************************************************************)
C14_CuxTranspose ==
    self.kind = "QuadCost" =>
        /\ ~IsError(Property(self, heap, "cux")) /\ ~IsError(Property(self, heap, "cxu"))
        /\ Property(self, heap, "cux").val.rows = Transposed(Property(self, heap, "cxu").val.rows)
        /\ (ret.op = "assign" /\ ret.a1 = "cux") => IsError(ret.out)

\* cxu was assigned a matrix that is not symmetric, after a reference point was set
C14_Witness ==
    /\ self.kind = "QuadCost" /\ ret.op = "assign" /\ ret.a1 = "cxu" /\ ~IsError(ret.out)
    /\ HasRefpoint(self) /\ evaluated # <<>>
    /\ self._cxu.rows = <<<<0, 1>>, <<2, 0>>>> /\ self._cux.rows = <<<<0, 2>>, <<1, 0>>>>

(***************************************************************************)
(* C15: of a QuadCost constructed with Q, R, S, in every state reached     *)
(* from the construction by evaluations and set_refpoint calls, cxx is     *)
(* exactly Q, cuu exactly R and cxu exactly S.                             *)
(***************************************************************************)
C15_QuadTerms ==
    (self.kind = "QuadCost" /\ assigns = 0) =>
        /\ Property(self, heap, "cxx") = Ok(self.Q)
        /\ Property(self, heap, "cuu") = Ok(self.R)
        /\ Property(self, heap, "cxu") = Ok(self.S)

\* cuu read after an evaluation and a set_refpoint: R, which is neither Q nor S
C15_Witness ==
    /\ self.kind = "QuadCost" /\ assigns = 0 /\ evaluated # <<>> /\ self._ref_c.set
    /\ ret.op = "read" /\ ret.a1 = "cuu"
    /\ ret.out = Ok(Matrix(2, <<<<1, 0>>, <<0, 2>>>>)) /\ self.Q # self.R /\ self.S # self.R

(***************************************************************************)
(* C16: in every state reached by evaluations and set_refpoint calls in    *)
(* which a reference point is recorded, the cached cost is the cost        *)
(* function applied to the reference state and the reference input that    *)
(* are recorded in that state.                                             *)
(***************************************************************************)
C16_CachedCost ==
    (/\ assigns = 0 /\ heap = CallerTensors /\ HasRefpoint(self)
     /\ ~IsError(cost(self, Value(self._ref_state, heap), Value(self._ref_input, heap))))
        => /\ self._ref_c.set
           /\ Real(self._ref_c.n, self._ref_c.d)
                  = cost(self, Value(self._ref_state, heap), Value(self._ref_input, heap)).val

(***************************************************************************)
(* C17: a set_refpoint call that raises leaves the reference state, the    *)
(* reference input and the cached cost of the object as they were before   *)
(* the call.                                                               *)
(***************************************************************************)
C17_FailedUnchanged ==
    (HasSetRefpoint /\ IsError(ret.out)) => Refpoint(self) = ret.before

(***************************************************************************)
(* C18: in mat2SO3, for every finite input matrix, rotation or not, the    *)
(* trace term of the branch that the masks select is strictly positive, so *)
(* 2*sqrt(t) is no division by zero and no root of a negative number.      *)
(***************************************************************************)
C18_PositiveTrace ==
    (called = "mat2SO3" /\ out.kind = "ok") =>
        \A o \in {out.main, out.rest} : ~o.q.nan => o.q.t > 0

====
